---- MODULE Spec2Model ----
(***************************************************************************)
(* A model of Focus (focus/focus.py): the editor of the hosts file, its    *)
(* content-addressed backups, the command line's three modes, and the      *)
(* duration parser parse_time.                                             *)
(*                                                                         *)
(* A text (the content of a file, a line, a string) is a sequence of       *)
(* characters.  The two marker texts and the loopback address never occur  *)
(* in part, so each is carried as one character of the alphabet.           *)
(***************************************************************************)
EXTENDS Integers, Sequences, FiniteSets, TLC

\* ------------------------------------------------------------------ bounds
MaxLines == 3      \* lines of the hosts file chosen in Init
MaxDomains == 1    \* length of a list of domains
MaxCalls == 4      \* constructions and method calls in one behaviour
MaxTime == 4       \* characters of a duration string

\* --------------------------------------------------------------- constants
NL == "\n"
SP == " "
FOCUS_BOS == <<"# Added by Focus">>
FOCUS_EOS == <<"# End of Focus section">>
DEFAULT_DST_IP == <<"127.0.0.1">>
SEC_IN_A_DAY == 86400
SEC_IN_A_HOUR == 3600
SEC_IN_A_MIN == 60

\* ------------------------------------------------------- strings and files
\* str.startswith
startswith(s, p) == Len(p) <= Len(s) /\ SubSeq(s, 1, Len(p)) = p

\* str.strip on the whitespace of the alphabet
RECURSIVE lstrip(_)
lstrip(s) == IF s # <<>> /\ Head(s) = SP THEN lstrip(Tail(s)) ELSE s

RECURSIVE rstrip(_)
rstrip(s) ==
    IF s # <<>> /\ s[Len(s)] = SP THEN rstrip(SubSeq(s, 1, Len(s) - 1)) ELSE s

strip(s) == rstrip(lstrip(s))

\* file.readlines: every line ends at its newline; a last line without a
\* newline is a line only when it is not empty
RECURSIVE readlines(_)
readlines(text) ==
    IF text = <<>> THEN <<>>
    ELSE IF \E i \in 1..Len(text) : text[i] = NL
         THEN LET i == CHOOSE k \in 1..Len(text) :
                          text[k] = NL /\ \A j \in 1..(k - 1) : text[j] # NL
              IN  <<SubSeq(text, 1, i - 1)>>
                      \o readlines(SubSeq(text, i + 1, Len(text)))
         ELSE <<text>>

\* Focus._read of an existing file
_read(text) ==
    LET ls == readlines(text) IN [i \in 1..Len(ls) |-> strip(ls[i])]

\* "\n".join
RECURSIVE join_nl(_)
join_nl(contents) ==
    IF contents = <<>> THEN <<>>
    ELSE IF Len(contents) = 1 THEN contents[1]
    ELSE contents[1] \o <<NL>> \o join_nl(Tail(contents))

\* Focus._write: the text the file holds afterwards
_write(contents) == join_nl(contents)

\* "".join
RECURSIVE join_empty(_)
join_empty(contents) ==
    IF contents = <<>> THEN <<>>
    ELSE contents[1] \o join_empty(Tail(contents))

\* hashlib.sha256(...).hexdigest(): a digest of fixed length, two characters
\* here, and free of collisions: the first is a function of the bytes, the
\* second stands for the rest of the digest and is the bytes themselves
hexdigest(byte_contents) ==
    <<IF Len(byte_contents) % 2 = 0 THEN "0" ELSE "1", byte_contents>>

\* ------------------------------------------------------------ Focus, pure
\* _backup without its test for an existing file: it writes every time
_backup_always(files, hosts_contents) ==
    LET current_hash == hexdigest(join_empty(hosts_contents)) IN
    [current_hash |-> current_hash,
     current_backup_path |-> current_hash,
     wrote |-> TRUE,
     files |-> (current_hash :> _write(hosts_contents)) @@ files]

\* Focus._backup on the files of the backup directory: the hash, the path and
\* whether the backup file was written
_backup(files, hosts_contents) ==
    LET byte_contents == join_empty(hosts_contents)
        current_hash == hexdigest(byte_contents)
        exists == current_hash \in DOMAIN files
    IN  [current_hash |-> current_hash,
         current_backup_path |-> current_hash,
         wrote |-> ~exists,
         files |-> IF exists THEN files
                   ELSE (current_hash :> _write(hosts_contents)) @@ files]

\* the loop of Focus.forbid_domains over the loaded lines
RECURSIVE scan(_, _)
scan(lines, is_focus_section) ==
    IF lines = <<>> THEN <<>>
    ELSE LET line == Head(lines) IN
         IF startswith(line, FOCUS_BOS) THEN scan(Tail(lines), TRUE)
         ELSE IF is_focus_section /\ startswith(line, FOCUS_EOS)
              THEN scan(Tail(lines), FALSE)
         ELSE IF ~is_focus_section
              THEN <<line>> \o scan(Tail(lines), is_focus_section)
         ELSE scan(Tail(lines), is_focus_section)

\* the loop without is_focus_section: only the marker lines are dropped
kept_markers_only(hosts_contents) ==
    SelectSeq(hosts_contents,
              LAMBDA line : ~startswith(line, FOCUS_BOS)
                                /\ ~startswith(line, FOCUS_EOS))

\* the loop with an end-marker line dropped wherever it stands
RECURSIVE scan_any_eos(_, _)
scan_any_eos(lines, is_focus_section) ==
    IF lines = <<>> THEN <<>>
    ELSE LET line == Head(lines) IN
         IF startswith(line, FOCUS_BOS) THEN scan_any_eos(Tail(lines), TRUE)
         ELSE IF startswith(line, FOCUS_EOS)
              THEN scan_any_eos(Tail(lines), FALSE)
         ELSE IF ~is_focus_section
              THEN <<line>> \o scan_any_eos(Tail(lines), is_focus_section)
         ELSE scan_any_eos(Tail(lines), is_focus_section)

kept_any_eos(hosts_contents) == scan_any_eos(hosts_contents, FALSE)

\* the lines forbid_domains keeps of the loaded content
kept_contents(hosts_contents) == scan(hosts_contents, FALSE)

\* f"{DEFAULT_DST_IP} {d}" for every d of domains
mapping_lines(domains) ==
    [i \in 1..Len(domains) |-> DEFAULT_DST_IP \o <<SP>> \o domains[i]]

\* updated_contents of Focus.forbid_domains
updated_contents(hosts_contents, domains) ==
    kept_contents(hosts_contents) \o <<FOCUS_BOS>> \o mapping_lines(domains)
        \o <<FOCUS_EOS>>

\* tgt_file of Focus.restore: the names of the backup directory that start
\* with the hash
tgt_file(files, hash) == {backup \in DOMAIN files : startswith(backup, hash)}

\* restore that raises only when no name matches, and takes one of several
restore_first_match(files, old_target, hash) ==
    LET found == tgt_file(files, hash) IN
    IF found = {}
    THEN [raised |-> TRUE, target |-> old_target]
    ELSE [raised |-> FALSE,
          target |-> _write(_read(files[CHOOSE b \in found : TRUE]))]

\* Focus.restore: whether it raises, and the text of the target afterwards
restore(files, old_target, hash) ==
    LET found == tgt_file(files, hash) IN
    IF Cardinality(found) # 1
    THEN [raised |-> TRUE, target |-> old_target]
    ELSE [raised |-> FALSE,
          target |-> _write(_read(files[CHOOSE b \in found : TRUE]))]

\* __exit__ that restores only when the block ended without an error
exit_restores_clean_only(raised) == ~raised

\* Focus.__exit__: restore is called whatever the block raised
exit_restores(raised) == TRUE

\* ------------------------------------------------------------- parse_time
DecimalChars == {"0", "2", "7"}
\* characters str.isdigit accepts and int() refuses, such as a superscript two
SuperscriptChars == {"^2"}
UnitChars == {"d", "h", "m", "s"}
TimeChars == DecimalChars \cup SuperscriptChars \cup UnitChars \cup {"."}

\* str.isdigit
isdigit(s) ==
    s # <<>> /\ \A i \in 1..Len(s) : s[i] \in DecimalChars \cup SuperscriptChars

\* whether int(s) raises ValueError, for s that isdigit accepts
int_raises(s) == \E i \in 1..Len(s) : s[i] \notin DecimalChars

DigitValue(c) == IF c = "0" THEN 0 ELSE IF c = "2" THEN 2 ELSE 7

\* int(s) of decimal digits
RECURSIVE int(_)
int(s) ==
    IF s = <<>> THEN 0
    ELSE 10 * int(SubSeq(s, 1, Len(s) - 1)) + DigitValue(s[Len(s)])

endswith(s, c) == s # <<>> /\ s[Len(s)] = c

Raise(kind) == [kind |-> kind, sec |-> -1]
Return(sec) == [kind |-> "return", sec |-> sec]

parse_time(time_str) ==
    LET prefix == SubSeq(time_str, 1, Len(time_str) - 1) IN
    IF ~isdigit(prefix) THEN Raise("ArgumentTypeError")
    ELSE IF endswith(time_str, "d")
         THEN IF int_raises(prefix) THEN Raise("ValueError")
              ELSE Return(int(prefix) * SEC_IN_A_DAY)
    ELSE IF endswith(time_str, "h")
         THEN IF int_raises(prefix) THEN Raise("ValueError")
              ELSE Return(int(prefix) * SEC_IN_A_HOUR)
    ELSE IF endswith(time_str, "m")
         THEN IF int_raises(prefix) THEN Raise("ValueError")
              ELSE Return(int(prefix) * SEC_IN_A_MIN)
    ELSE IF endswith(time_str, "s")
         THEN IF int_raises(prefix) THEN Raise("ValueError")
              ELSE Return(int(prefix))
    ELSE Raise("ArgumentTypeError")

\* ------------------------------------------------------------------ state
VARIABLES
    target_exists,  \* whether TARGET_FILE_PATH exists
    target,         \* the text of TARGET_FILE_PATH
    backup_dir,     \* the files of the backup directory: name -> text
    focus,          \* the Focus instance: hosts_contents, _current_hash, ...
    mode,           \* how main runs: "timed", "never", "restore"; "lib": the
                    \* class used directly, as the tests use it
    pc,             \* "none", "ready", "wait", "exit", "done"
    err,            \* the exception the last call raised, or "none"
    calls,          \* constructions and method calls made so far
    ops,            \* history: the calls made on the instance, in order
    last_domains,   \* history: the argument of the last forbid_domains
    last_hash,      \* history: the hash the last restore looked for
    writes,         \* history: name -> times the backup file was written
    tgt_writer,     \* history: who wrote the target last
    block_out,      \* history: the text the last forbid_domains wrote
    pair,           \* history: two applications in a row: first, second
    arg_time,       \* the string handed to parse_time
    parsed          \* what parse_time did with it

file_vars ==
    <<target_exists, target, backup_dir, focus, mode, pc, err, calls, ops,
      last_domains, last_hash, writes, tgt_writer, block_out, pair>>
time_vars == <<arg_time, parsed>>
vars == <<file_vars, time_vars>>

\* ----------------------------------------------------------------- inputs
HostLines == {<<>>, <<"a", SP>>, FOCUS_BOS, FOCUS_EOS}

SeqsUpTo(S, n) == UNION {[1..k -> S] : k \in 0..n}

\* the hosts file before the tool runs: some lines with a newline between
\* them; the file ends with a newline when the last of them is empty
InitTexts == {join_nl(ls) : ls \in SeqsUpTo(HostLines, MaxLines)}

DomainNames == {<<"x.com">>}
DomainLists == SeqsUpTo(DomainNames, MaxDomains)

None == <<"None">>

\* the hashes restore is called with: no hash, a prefix of a digest, the
\* name of a backup
HashArgs == {None, <<>>, <<"0">>} \cup DOMAIN backup_dir

NoFocus ==
    [live |-> FALSE, hosts_contents |-> <<>>, current_hash |-> <<>>,
     current_backup_path |-> <<>>, applied |-> FALSE, from_block |-> FALSE]

NoPair == [set |-> FALSE, first |-> <<>>, second |-> <<>>]

NoFiles == [n \in {} |-> <<>>]

\* history: the count of writes after a call of _backup that returned b
Written(count, b) ==
    IF ~b.wrote THEN count
    ELSE [n \in DOMAIN count \cup {b.current_hash} |->
             (IF n \in DOMAIN count THEN count[n] ELSE 0)
                 + (IF n = b.current_hash THEN 1 ELSE 0)]

FileInit ==
    /\ target_exists \in BOOLEAN
    /\ target \in IF target_exists THEN InitTexts ELSE {<<>>}
    /\ backup_dir = NoFiles
    /\ focus = NoFocus
    /\ mode = "lib"
    /\ pc = "none"
    /\ err = "none"
    /\ calls = 0
    /\ ops = <<>>
    /\ last_domains = <<>>
    /\ last_hash = <<>>
    /\ writes = NoFiles
    /\ tgt_writer = "init"
    /\ block_out = <<>>
    /\ pair = NoPair

TimeIdle == arg_time = <<>> /\ parsed = Raise("none")

Init == FileInit /\ TimeIdle

\* ----------------------------------------------------------------- actions
\* Focus.__init__: as the first step of main in one of its modes, or by a
\* caller of the class
Construct(m) ==
    /\ pc \in {"none", "done"} \/ (pc = "ready" /\ mode = "lib")
    /\ calls < MaxCalls
    /\ calls' = calls + 1
    /\ mode' = m
    /\ ops' = <<>>
    /\ pair' = NoPair
    /\ last_domains' = <<>>
    /\ last_hash' = <<>>
    /\ block_out' = IF tgt_writer = "forbid" THEN block_out ELSE <<>>
    /\ UNCHANGED <<target_exists, target, tgt_writer, time_vars>>
    /\ IF ~target_exists
       THEN /\ err' = "FileNotFoundError"
            /\ pc' = "done"
            /\ focus' = NoFocus
            /\ UNCHANGED <<backup_dir, writes>>
       ELSE LET hosts_contents == _read(target)
                b == _backup(backup_dir, hosts_contents)
            IN  /\ focus' = [live |-> TRUE,
                             hosts_contents |-> hosts_contents,
                             current_hash |-> b.current_hash,
                             current_backup_path |-> b.current_backup_path,
                             applied |-> FALSE,
                             from_block |-> tgt_writer = "forbid"]
                /\ backup_dir' = b.files
                /\ writes' = Written(writes, b)
                /\ err' = "none"
                /\ pc' = "ready"

\* Focus._backup called again on the instance
Backup ==
    /\ pc = "ready" /\ mode = "lib" /\ calls < MaxCalls
    /\ calls' = calls + 1
    /\ LET b == _backup(backup_dir, focus.hosts_contents) IN
        /\ focus' = [focus EXCEPT !.current_hash = b.current_hash,
                                  !.current_backup_path = b.current_backup_path]
        /\ backup_dir' = b.files
        /\ writes' = Written(writes, b)
    /\ ops' = Append(ops, "backup")
    /\ err' = "none"
    /\ UNCHANGED <<target_exists, target, mode, pc, last_domains,
                   last_hash, tgt_writer, block_out, pair, time_vars>>

\* Focus.forbid_domains(domains); in the timed mode an error leaves the with
\* block, in the never-ending mode the call ends main
ForbidDomains(domains) ==
    /\ pc = "ready" /\ mode \in {"lib", "timed", "never"}
    /\ mode = "lib" => calls < MaxCalls
    /\ calls' = calls + 1
    /\ last_domains' = domains
    /\ UNCHANGED <<backup_dir, mode, last_hash, writes, time_vars>>
    /\ IF focus.hosts_contents = <<>>
       THEN /\ err' = "RuntimeError"
            /\ ops' = Append(ops, "forbid_err")
            /\ pc' = IF mode = "lib" THEN "ready"
                     ELSE IF mode = "timed" THEN "exit" ELSE "done"
            /\ UNCHANGED <<target_exists, target, focus, tgt_writer,
                           block_out, pair>>
       ELSE LET text == _write(updated_contents(focus.hosts_contents, domains))
            IN  /\ target' = text
                /\ target_exists' = TRUE
                /\ tgt_writer' = "forbid"
                /\ block_out' = text
                /\ pair' = IF focus.applied \/ focus.from_block
                           THEN [set |-> TRUE, first |-> block_out,
                                 second |-> text]
                           ELSE NoPair
                /\ focus' = [focus EXCEPT !.applied = TRUE]
                /\ err' = "none"
                /\ ops' = Append(ops, "forbid")
                /\ pc' = IF mode = "lib" THEN "ready"
                         ELSE IF mode = "timed" THEN "wait" ELSE "done"

\* what a call of restore does to the state
DoRestore(hash) ==
    LET h == IF hash = None THEN focus.current_hash ELSE hash
        r == restore(backup_dir, target, h)
    IN  /\ last_hash' = h
        /\ target' = r.target
        /\ target_exists' = (target_exists \/ ~r.raised)
        /\ tgt_writer' = IF r.raised THEN tgt_writer ELSE "restore"
        /\ err' = IF r.raised THEN "RuntimeError" ELSE "none"
        /\ ops' = Append(ops, IF r.raised THEN "restore_err" ELSE "restore")
        /\ calls' = calls + 1
        /\ UNCHANGED <<backup_dir, focus, mode, last_domains, writes,
                       block_out, pair, time_vars>>

\* Focus.restore(hash): by a caller of the class, or main with --restore
Restore(hash) ==
    /\ pc = "ready" /\ mode \in {"lib", "restore"}
    /\ mode = "lib" => calls < MaxCalls
    /\ mode = "restore" => hash # None
    /\ DoRestore(hash)
    /\ pc' = IF mode = "lib" THEN "ready" ELSE "done"

\* the wait of the timed mode: it ends, or sum(args.time) or the sleep raises
Wait(raises) ==
    /\ pc = "wait" /\ mode = "timed"
    /\ pc' = "exit"
    /\ err' = IF raises THEN "Exception" ELSE "none"
    /\ UNCHANGED <<target_exists, target, backup_dir, focus, mode, calls, ops,
                   last_domains, last_hash, writes, tgt_writer, block_out,
                   pair, time_vars>>

\* Focus.__exit__ at the end of the with block
Exit ==
    /\ pc = "exit" /\ mode = "timed"
    /\ pc' = "done"
    /\ IF exit_restores(err # "none")
       THEN DoRestore(None)
       ELSE UNCHANGED <<target_exists, target, backup_dir, focus, mode, calls,
                        ops, last_domains, last_hash, writes, tgt_writer,
                        block_out, pair, err, time_vars>>

Next ==
    \/ \E m \in {"lib", "timed", "never", "restore"} : Construct(m)
    \/ Backup
    \/ \E domains \in DomainLists : ForbidDomains(domains)
    \/ \E hash \in HashArgs : Restore(hash)
    \/ \E raises \in BOOLEAN : Wait(raises)
    \/ Exit

Spec == Init /\ [][Next]_vars

\* ------------------------------------------------- parse_time on its own
TimeStrings == SeqsUpTo(TimeChars, MaxTime)

ParseInit ==
    /\ arg_time \in TimeStrings
    /\ parsed = Raise("none")
    /\ target_exists = TRUE
    /\ target = <<>>
    /\ backup_dir = NoFiles
    /\ focus = NoFocus
    /\ mode = "lib"
    /\ pc = "none"
    /\ err = "none"
    /\ calls = 0
    /\ ops = <<>>
    /\ last_domains = <<>>
    /\ last_hash = <<>>
    /\ writes = NoFiles
    /\ tgt_writer = "init"
    /\ block_out = <<>>
    /\ pair = NoPair

\* argparse calls parse_time on a --time token
ParseTime ==
    /\ parsed.kind = "none"
    /\ parsed' = parse_time(arg_time)
    /\ UNCHANGED <<arg_time, file_vars>>

ParseNext == ParseTime

ParseSpec == ParseInit /\ [][ParseNext]_vars

\* ================================================================= claims
LastOp == IF ops = <<>> THEN "none" ELSE ops[Len(ops)]
TargetLines == _read(target)
Loaded == focus.hosts_contents
IsBOS(line) == startswith(line, FOCUS_BOS)
IsEOS(line) == startswith(line, FOCUS_EOS)

\* line i of L lies in a section opened by a begin-marker line and closed by
\* the first end-marker line after it, both included
InDelimitedSection(L, i) ==
    \E j \in 1..i, k \in i..Len(L) :
        /\ j < k
        /\ IsBOS(L[j])
        /\ IsEOS(L[k])
        /\ \A m \in (j + 1)..(i - 1) : ~IsEOS(L[m])

RECURSIVE NonManagedFrom(_, _)
NonManagedFrom(L, i) ==
    IF i > Len(L) THEN <<>>
    ELSE (IF InDelimitedSection(L, i) \/ IsBOS(L[i]) THEN <<>> ELSE <<L[i]>>)
             \o NonManagedFrom(L, i + 1)

\* the loaded lines outside every delimited section, in order; a begin-marker
\* line is the tool's own and never counts as one of them
NonManaged(L) == NonManagedFrom(L, 1)

\* C1: after construction, forbid_domains(D) and restore() without a hash,
\* the target file holds exactly the lines that were loaded, in order.
C1_RoundTrip ==
    (focus.live /\ ops = <<"forbid", "restore">>
        /\ last_hash = focus.current_hash)
        => TargetLines = Loaded

\* C2: after forbid_domains(D) the target file holds the loaded lines that
\* are outside every begin-marker/end-marker delimited section, in order,
\* then the begin-marker, one mapping line per domain of D in the order of D,
\* the end-marker, and nothing else.
C2_ForbidOutput ==
    LastOp = "forbid"
        => TargetLines = NonManaged(Loaded) \o <<FOCUS_BOS>>
                             \o mapping_lines(last_domains) \o <<FOCUS_EOS>>

\* C3: while an instance lives, the backup file at its current_backup_path
\* exists and its lines are exactly the lines loaded at construction.
C3_BackupHoldsLoaded ==
    focus.live
        => /\ focus.current_backup_path \in DOMAIN backup_dir
           /\ _read(backup_dir[focus.current_backup_path]) = Loaded

\* C4: after restore(h) with exactly one backup name starting with h, the
\* lines of the target file are the stripped lines of that backup file.
C4_RestoreReproduces ==
    LastOp = "restore"
        => LET found == tgt_file(backup_dir, last_hash) IN
           /\ Cardinality(found) = 1
           /\ TargetLines = _read(backup_dir[CHOOSE b \in found : TRUE])

\* a step that is a call of restore
RestoreCalled ==
    /\ Len(ops') = Len(ops) + 1
    /\ ops'[Len(ops')] \in {"restore", "restore_err"}

\* C5: restore(h) raises RuntimeError whenever the names of the backup
\* directory starting with h are none or more than one, and then changes
\* neither the target file nor the backup directory.
C5_RestoreFails ==
    [][(RestoreCalled /\ Cardinality(tgt_file(backup_dir, last_hash')) # 1)
          => /\ ops'[Len(ops')] = "restore_err"
             /\ err' = "RuntimeError"
             /\ target' = target
             /\ target_exists' = target_exists
             /\ backup_dir' = backup_dir]_vars

C5_Witness ==
    /\ LastOp = "restore_err"
    /\ Cardinality(tgt_file(backup_dir, last_hash)) > 1

\* C6: a backup file is written at most once, and no step changes or removes
\* a backup file that exists.
C6_BackupsImmutable ==
    /\ [](\A n \in DOMAIN writes : writes[n] <= 1)
    /\ [][\A n \in DOMAIN backup_dir :
              n \in DOMAIN backup_dir' /\ backup_dir'[n] = backup_dir[n]]_vars

\* a second snapshot met the file of an earlier one, whose text differs from
\* what it would have written
C6_Witness ==
    /\ focus.live
    /\ calls >= 2
    /\ Cardinality(DOMAIN backup_dir) = 1
    /\ backup_dir[focus.current_backup_path] # _write(Loaded)

\* C7: a timed run that constructed its instance ends only after restore has
\* run, with the target file rewritten from the backup; a never-ending run
\* that applied the block ends without a restore, the block in the file.
C7_ScopedRestore ==
    /\ (mode = "timed" /\ pc = "done" /\ focus.live)
        => /\ LastOp = "restore"
           /\ tgt_writer = "restore"
           /\ target = _write(_read(backup_dir[focus.current_backup_path]))
    /\ (mode = "never" /\ pc = "done" /\ focus.live /\ LastOp = "forbid")
        => /\ ops = <<"forbid">>
           /\ tgt_writer = "forbid"
           /\ target = _write(updated_contents(Loaded, last_domains))

\* the with block was left by an error of forbid_domains, and restore ran
C7_Witness ==
    /\ mode = "timed" /\ pc = "done"
    /\ ops = <<"forbid_err", "restore">>

\* a digit string followed by one unit
WellFormed(str) ==
    /\ Len(str) >= 2
    /\ \A i \in 1..(Len(str) - 1) : str[i] \in DecimalChars
    /\ str[Len(str)] \in UnitChars

UnitSeconds(c) ==
    IF c = "d" THEN 86400 ELSE IF c = "h" THEN 3600
    ELSE IF c = "m" THEN 60 ELSE 1

\* C8: parse_time returns n times the unit's seconds for digits n followed by
\* one of d, h, m, s, and raises ArgumentTypeError for every other string.
C8_ParseTime ==
    parsed.kind # "none"
        => IF WellFormed(arg_time)
           THEN parsed = Return(int(SubSeq(arg_time, 1, Len(arg_time) - 1))
                                    * UnitSeconds(arg_time[Len(arg_time)]))
           ELSE parsed = Raise("ArgumentTypeError")

\* the lines before the first begin-marker line
RECURSIVE PrefixOf(_)
PrefixOf(lines) ==
    IF lines = <<>> \/ IsBOS(Head(lines)) THEN <<>>
    ELSE <<Head(lines)>> \o PrefixOf(Tail(lines))

\* the lines after the first begin-marker line
SectionOf(lines) ==
    SubSeq(lines, Len(PrefixOf(lines)) + 2, Len(lines))

\* C9: when forbid_domains is applied a second time, by the same instance or
\* by a new one that loaded what the first wrote, the lines before the
\* begin-marker are those of the first output, and the section holds the
\* mapping lines of the second list only.
C9_SecondApplication ==
    pair.set
        => /\ PrefixOf(_read(pair.second)) = PrefixOf(_read(pair.first))
           /\ SectionOf(_read(pair.second))
                  = mapping_lines(last_domains) \o <<FOCUS_EOS>>

\* a new instance loaded the blocked file and applied another list
C9_Witness ==
    /\ pair.set
    /\ ops = <<"forbid">>
    /\ focus.from_block
    /\ pair.first # pair.second

BOSLines(lines) == {i \in 1..Len(lines) : IsBOS(lines[i])}
EOSLines(lines) == {i \in 1..Len(lines) : IsEOS(lines[i])}

\* C10 as claimed: after forbid_domains the target file has exactly one
\* begin-marker line and exactly one end-marker line, the end-marker last,
\* and only the mapping lines between them.
C10_OneSection ==
    LastOp = "forbid"
        => LET out == TargetLines IN
           /\ Cardinality(BOSLines(out)) = 1
           /\ Cardinality(EOSLines(out)) = 1
           /\ out[Len(out)] = FOCUS_EOS
           /\ SectionOf(out) = mapping_lines(last_domains) \o <<FOCUS_EOS>>

\* the end-marker lines of L that no begin-marker line before them opened
OrphanEOS(L) ==
    {i \in 1..Len(L) :
        /\ IsEOS(L[i])
        /\ ~\E j \in 1..(i - 1) :
               IsBOS(L[j]) /\ \A m \in (j + 1)..(i - 1) : ~IsEOS(L[m])}

\* C10 amended: after forbid_domains the target file has exactly one
\* begin-marker line, followed by the mapping lines and the end-marker as
\* the last line; before the begin-marker it keeps every loaded end-marker
\* line that no begin-marker had opened, so that its end-marker lines are
\* those and one more.
C10_OneSectionAmended ==
    LastOp = "forbid"
        => LET out == TargetLines IN
           /\ Cardinality(BOSLines(out)) = 1
           /\ out[Len(out)] = FOCUS_EOS
           /\ SectionOf(out) = mapping_lines(last_domains) \o <<FOCUS_EOS>>
           /\ Cardinality(EOSLines(out)) = 1 + Cardinality(OrphanEOS(Loaded))

\* the loaded file held an end-marker line outside every section
C10_Witness ==
    /\ LastOp = "forbid"
    /\ OrphanEOS(Loaded) # {}
    /\ BOSLines(Loaded) # {}

====
